---------------------------- MODULE Spec2Model ----------------------------
(***************************************************************************)
(* The job-execution and log-streaming core of pipeline_manager.py:        *)
(* PipelinePanel's run flag, process handle, log queue and console, the    *)
(* control-thread handlers (_run_pipeline, _stop_pipeline, _poll_queue,    *)
(* _on_pipeline_finished), the worker thread (_pipeline_worker) and the    *)
(* child process it spawns.                                                *)
(*                                                                         *)
(* Threads.  The Tk event loop runs one handler at a time, so the three    *)
(* control handlers exclude each other; _poll_queue is a loop of           *)
(* get_nowait calls and the worker thread and the child interleave with    *)
(* every one of them, so the poll is modelled one get_nowait per step.     *)
(*                                                                         *)
(* The child.  An OS process that writes lines to the pipe it shares with  *)
(* the worker and exits with some code; its pipe reaches end-of-file when  *)
(* it has exited and the pipe is empty.  A child whose Popen object has    *)
(* been replaced in self._process can no longer be reached by the program: *)
(* such children are only counted (orphans).                               *)
(*                                                                         *)
(* The console is kept from the last "Pipeline started" banner on: the     *)
(* code never reads the console back, so older text decides nothing.       *)
(*                                                                         *)
(* Text.  A line is the tuple of its characters, so that _classify_line     *)
(* lower-cases and searches it as the code does.                           *)
(*                                                                         *)
(* The elapsed timer.  _update_timer shows the seconds since the start and *)
(* schedules itself again; elapsed time is counted in its ticks.           *)
(*                                                                         *)
(* Left out: the widgets (buttons, progress bar, labels other than the     *)
(* status label and the elapsed label), and save_config_silently and       *)
(* _build_command, which _run_pipeline calls before it sets the run flag.  *)
(***************************************************************************)
EXTENDS Integers, Sequences, FiniteSets, TLC

\* ---------------------------------------------------------------- bounds
\* Number of accepted starts explored.
MaxRuns == 2
\* Number of lines one child process writes at most.
MaxLines == 2
\* Number of termination requests _stop_pipeline issues between two starts.
MaxStops == 1
\* Number of seconds the elapsed timer counts at most.
MaxElapsed == 1
\* Number of fragments a line given to _classify_line is made of at most.
MaxFragments == 3

\* ------------------------------------------------------------- constants
\* exit_code when self._process is None.
NoProcessCode == -1
\* returncode of a child ended by the signal terminate() sends (SIGTERM).
SigtermCode == -15
\* Exit code of a process ended by taskkill /F.
TaskkillCode == 1
\* Exit codes a child chooses by itself.
ChildCodes == {0, 1}

\* None put on the queue: the same value for every run.
Sentinel == <<"None", 0, 0>>
\* A line of child output: the i-th line written by process p.
Line(p, i) == <<"line", p, i>>
\* f"ERROR: Could not start process: {e}"
ErrCouldNotStart(r) == <<"ERROR: Could not start process", r, 0>>
\* f"ERROR: {e}"
ErrException(r) == <<"ERROR", r, 0>>

\* Console lines the handlers write themselves.
Separator == <<"====", 0, 0>>
Started(r) == <<"Pipeline started", r, 0>>
Command(r) == <<"Command:", r, 0>>
Stopping == <<"Stopping pipeline (terminating process tree)...", 0, 0>>
ErrorStopping == <<"Error stopping:", 0, 0>>
Completed == <<"Pipeline completed successfully", 0, 0>>
ExitedWith == <<"Pipeline exited with code", 0, 0>>
TotalTime == <<"Total time:", 0, 0>>

\* ------------------------------------------------------------------ text
\* A str is the tuple of its characters.
UpperCase == <<"A", "B", "C", "D", "E", "F", "G", "H", "I", "J", "K", "L",
  "M", "N", "O", "P", "Q", "R", "S", "T", "U", "V", "W", "X", "Y", "Z">>
LowerCase == <<"a", "b", "c", "d", "e", "f", "g", "h", "i", "j", "k", "l",
  "m", "n", "o", "p", "q", "r", "s", "t", "u", "v", "w", "x", "y", "z">>
\* c.lower() of one character.
LowerChar(c) ==
    IF \E i \in DOMAIN UpperCase : UpperCase[i] = c
    THEN LowerCase[CHOOSE i \in DOMAIN UpperCase : UpperCase[i] = c]
    ELSE c
\* line.lower()
Lower(line) == [i \in 1..Len(line) |-> LowerChar(line[i])]
\* x in l
Contains(l, x) ==
    \E i \in 0..(Len(l) - Len(x)) : SubSeq(l, i + 1, i + Len(x)) = x
\* line.startswith(x)
StartsWith(line, x) == Len(line) >= Len(x) /\ SubSeq(line, 1, Len(x)) = x

\* The keyword lists of _classify_line.
ErrorKeywords ==
    {<<"e", "r", "r", "o", "r">>,
    <<"f", "a", "i", "l", "e", "d">>,
    <<"e", "x", "c", "e", "p", "t", "i", "o", "n">>,
    <<"t", "r", "a", "c", "e", "b", "a", "c", "k">>,
    <<"e", "x", "i", "t", " ", "c", "o", "d", "e">>}
WarningKeywords ==
    {<<"w", "a", "r", "n", "i", "n", "g">>,
    <<"w", "a", "r", "n">>,
    <<"n", "o", "t", " ", "f", "o", "u", "n", "d">>,
    <<"s", "k", "i", "p", "p", "e", "d">>}
SuccessKeywords ==
    {<<"d", "o", "n", "e">>,
    <<"c", "o", "m", "p", "l", "e", "t", "e">>,
    <<"s", "u", "c", "c", "e", "s", "s">>,
    <<"f", "i", "n", "i", "s", "h", "e", "d">>,
    <<"m", "e", "r", "g", "e", "d">>}
InfoKeywords ==
    {<<"s", "t", "e", "p">>,
    <<"s", "t", "a", "r", "t", "i", "n", "g">>,
    <<"p", "r", "o", "c", "e", "s", "s", "i", "n", "g">>,
    <<"i", "m", "p", "o", "r", "t", "i", "n", "g">>,
    <<"e", "x", "p", "o", "r", "t", "i", "n", "g">>}

\* _classify_line with the success keywords looked for first.
ClassifyLine_SuccessFirst(line) ==
    LET l == Lower(line)
    IN  IF \E x \in SuccessKeywords : Contains(l, x) THEN "success"
        ELSE IF \E x \in ErrorKeywords : Contains(l, x) THEN "error"
        ELSE IF \E x \in WarningKeywords : Contains(l, x) THEN "warning"
        ELSE IF \E x \in InfoKeywords : Contains(l, x) THEN "info"
        ELSE IF StartsWith(line, <<"=">>) \/ StartsWith(line, <<"-">>)
             THEN "accent"
        ELSE "normal"

\* _classify_line(line): the tag of the first keyword list one of whose
\* keywords is in the lower-cased line; "accent" for a line that starts with
\* "=" or "-"; else "normal".
ClassifyLine(line) ==
    LET l == Lower(line)
    IN  IF \E x \in ErrorKeywords : Contains(l, x) THEN "error"
        ELSE IF \E x \in WarningKeywords : Contains(l, x) THEN "warning"
        ELSE IF \E x \in SuccessKeywords : Contains(l, x) THEN "success"
        ELSE IF \E x \in InfoKeywords : Contains(l, x) THEN "info"
        ELSE IF StartsWith(line, <<"=">>) \/ StartsWith(line, <<"-">>)
             THEN "accent"
        ELSE "normal"

\* The text of the items on the queue.  What a child writes is its own
\* business: line i of every child is the i-th of these sample lines.
SampleOutput ==
    <<<<"S", "T", "E", "P", " ", "1", "\n">>,
      <<"D", "o", "n", "e", "\n">>,
      <<"a", ".", "g", "l", "b", "\n">>>>
\* readline returns a line with its newline.
LineText(i) == SampleOutput[((i - 1) % Len(SampleOutput)) + 1]
\* str(e) of the exception the worker caught (a sample).
ExcText == <<"c", "l", "o", "s", "e", "d", " ", "f", "i", "l", "e">>
\* f"ERROR: Could not start process: {e}"
CouldNotStartText == <<"E", "R", "R", "O", "R", ":", " ", "C", "o", "u", "l",
  "d", " ", "n", "o", "t", " ", "s", "t", "a", "r", "t", " ", "p", "r", "o",
    "c", "e", "s", "s", ":", " ">> \o ExcText
\* The line without its "ERROR: " in front.
ExceptionText_Bare == ExcText
\* f"ERROR: {e}"
ExceptionText == <<"E", "R", "R", "O", "R", ":", " ">> \o ExcText
\* A line given by its text.
TextLine(t) == <<"text", 0, t>>
TextOf(entry) ==
    CASE entry[1] = "line" -> LineText(entry[3])
      [] entry[1] = "text" -> entry[3]
      [] entry[1] = "ERROR: Could not start process" -> CouldNotStartText
      [] OTHER -> ExceptionText
\* _classify_line of each of these texts, computed once.
QueueTexts ==
    {LineText(i) : i \in DOMAIN SampleOutput}
        \cup {CouldNotStartText, ExceptionText}
Tags == [t \in QueueTexts |-> ClassifyLine(t)]

\* self._process = None.  A Popen object is the record of its child: pid
\* (the run that spawned it), st ("alive" or "exited"), code (the exit code
\* the child ended with, <<>> while alive), rc (the returncode attribute,
\* <<>> for None), nw (lines the child has written), pipe (lines written and
\* not yet read), sig (terminate() has sent its signal).
NoProc == [pid |-> 0, st |-> "none", code |-> <<>>, rc |-> <<>>, nw |-> 0,
           pipe |-> <<>>, sig |-> FALSE]

VARIABLES
    platform,     \* sys.platform: "win32" or "posix"
    running,      \* self._running
    status,       \* text of self._status_label
    shown_code,   \* exit_code in _on_pipeline_finished of this run, <<>> before
    final_code,   \* the exit code the child had ended with at that moment
    process,      \* self._process
    orphans,      \* live children whose Popen object self._process dropped
    log_queue,    \* self._log_queue
    console,      \* lines logged to self._console since the last banner
    wpc,          \* where the worker thread is in _pipeline_worker
    pollActive,   \* a _poll_queue call is in progress
    pollN,        \* lines the _poll_queue call in progress has logged
    nruns,        \* worker threads created so far (= accepted starts)
    nfinished,    \* calls of _on_pipeline_finished so far
    pushed,       \* items the current run's worker has put on the queue
    stopAsked,    \* _stop_pipeline was called while the current run was running
    stopLate,     \* ... and found the child of the current run exited
    nstops,       \* termination requests issued since the last start
    item,         \* the line the _poll_queue call in progress took last, or <<>>
    tag,          \* its tag, "" before _classify_line has returned
    pollAlive,    \* a _poll_queue call is scheduled or in progress
    start_time,   \* self._start_time: the start that set it, 0 for None
    elapsed,      \* seconds shown by self._elapsed_label, <<>> for no text
    timers,       \* ids of the _update_timer callbacks Tk has pending
    timer_id      \* self._timer_id, 0 for None

vars == <<platform, running, status, shown_code, final_code, process, orphans, log_queue,
          console, wpc, pollActive, pollN, nruns, nfinished, pushed, stopAsked,
          stopLate, nstops, item, tag, pollAlive, start_time, elapsed, timers,
          timer_id>>

\* What the control thread alone writes.
ctl == <<running, status, shown_code, final_code, console, pollActive, pollN, nfinished,
         stopAsked, stopLate, nstops, item, tag, pollAlive, start_time,
         elapsed, timers, timer_id>>

\* ------------------------------------------------------------------ Init
\* Everything but the locals of _poll_queue.
InitPanel ==
    /\ platform \in {"win32", "posix"}
    /\ running = FALSE
    /\ status = "IDLE"
    /\ shown_code = <<>>
    /\ final_code = <<>>
    /\ process = NoProc
    /\ orphans = 0
    /\ log_queue = <<>>
    /\ console = <<>>
    /\ wpc = "none"
    /\ pollActive = FALSE
    /\ pollN = 0
    /\ nruns = 0
    /\ nfinished = 0
    /\ pushed = <<>>
    /\ stopAsked = FALSE
    /\ stopLate = FALSE
    /\ nstops = 0
    /\ pollAlive = TRUE
    /\ start_time = 0
    /\ elapsed = <<>>
    /\ timers = {}
    /\ timer_id = 0

Init == InitPanel /\ item = <<>> /\ tag = ""

\* ------------------------------------------------------------- helpers
\* self._log(text, tag): the line goes to the end of the console.
Log(c, entry) == Append(c, entry)

\* Put as a LIFO queue would do it: the item goes to the front.
Put_Lifo(entry) ==
    /\ log_queue' = <<entry>> \o log_queue
    /\ pushed' = Append(pushed, entry)

\* self._log_queue.put(entry), with the history of this run's puts.
Put(entry) ==
    /\ log_queue' = Append(log_queue, entry)
    /\ pushed' = Append(pushed, entry)

\* Number of child processes alive.
LiveChildren == orphans + (IF process.st = "alive" THEN 1 ELSE 0)

\* ------------------------------------------------- the child process
\* The child writes its next line to the pipe.  Only what it writes while
\* the worker is in its read loop can be read by anyone.
ChildWrite ==
    /\ process.st = "alive"
    /\ wpc = "read"
    /\ process.nw < MaxLines
    /\ process' = [process EXCEPT !.nw = @ + 1,
                     !.pipe = Append(@, Line(process.pid, process.nw + 1))]
    /\ UNCHANGED <<platform, orphans, log_queue, wpc, nruns, pushed, ctl>>

\* The child exits: with a code of its own, or, once terminate() has sent
\* its signal, possibly by that signal.
ChildExit ==
    /\ process.st = "alive"
    /\ \E c \in ChildCodes \cup (IF process.sig THEN {SigtermCode} ELSE {}) :
          process' = [process EXCEPT !.st = "exited", !.code = <<c>>]
    /\ UNCHANGED <<platform, orphans, log_queue, wpc, nruns, pushed, ctl>>

\* A child the program no longer holds a handle of exits.
OrphanExit ==
    /\ orphans > 0
    /\ orphans' = orphans - 1
    /\ UNCHANGED <<platform, process, log_queue, wpc, nruns, pushed, ctl>>

\* ------------------------------------------------- _pipeline_worker
\* subprocess.Popen(cmd, ...): the process is spawned and its handle stored
\* in self._process, or Popen raises FileNotFoundError or another exception.
WorkerPopen ==
    /\ wpc = "popen"
    /\ \/ /\ process' = [NoProc EXCEPT !.pid = nruns, !.st = "alive"]
          /\ orphans' = orphans + (IF process.st = "alive" THEN 1 ELSE 0)
          /\ wpc' = "read"
       \/ /\ wpc' \in {"except_fnf", "except"}
          /\ UNCHANGED <<process, orphans>>
    /\ UNCHANGED <<platform, log_queue, nruns, pushed, ctl>>

\* One turn of "for line in iter(self._process.stdout.readline, '')": a line
\* is read and, being non-empty, put on the queue.
WorkerReadLine ==
    /\ wpc = "read"
    /\ process.pipe # <<>>
    /\ Put(Head(process.pipe))
    /\ process' = [process EXCEPT !.pipe = Tail(@)]
    /\ UNCHANGED <<platform, orphans, wpc, nruns, ctl>>

\* readline returns "": end of stream, the loop ends.
WorkerReadEOF ==
    /\ wpc = "read"
    /\ process.pipe = <<>>
    /\ process.st = "exited"
    /\ wpc' = "wait"
    /\ UNCHANGED <<platform, process, orphans, log_queue, nruns, pushed, ctl>>

\* readline raises: control jumps to "except Exception", past wait().
WorkerReadError ==
    /\ wpc = "read"
    /\ wpc' = "except"
    /\ UNCHANGED <<platform, process, orphans, log_queue, nruns, pushed, ctl>>

\* self._process.wait(): returns once the child has exited, and sets
\* returncode.
WorkerWait ==
    /\ wpc = "wait"
    /\ process.st = "exited"
    /\ process' = [process EXCEPT !.rc = process.code]
    /\ wpc' = "finally"
    /\ UNCHANGED <<platform, orphans, log_queue, nruns, pushed, ctl>>

\* The handler with put(None) at the end of the try block instead of in a
\* finally clause: the thread ends without a sentinel.
WorkerExceptFnf_NoFinally ==
    /\ wpc = "except_fnf"
    /\ Put(ErrCouldNotStart(nruns))
    /\ wpc' = "done"
    /\ UNCHANGED <<platform, process, orphans, nruns, ctl>>

\* except FileNotFoundError.
WorkerExceptFnf ==
    /\ wpc = "except_fnf"
    /\ Put(ErrCouldNotStart(nruns))
    /\ wpc' = "finally"
    /\ UNCHANGED <<platform, process, orphans, nruns, ctl>>

\* except Exception, with the handler putting a sentinel of its own after the
\* error line, before the one of finally.
WorkerExcept_AlsoSentinel ==
    /\ wpc = "except"
    /\ log_queue' = log_queue \o <<ErrException(nruns), Sentinel>>
    /\ pushed' = pushed \o <<ErrException(nruns), Sentinel>>
    /\ wpc' = "finally"
    /\ UNCHANGED <<platform, process, orphans, nruns, ctl>>

\* except Exception.
WorkerExcept ==
    /\ wpc = "except"
    /\ Put(ErrException(nruns))
    /\ wpc' = "finally"
    /\ UNCHANGED <<platform, process, orphans, nruns, ctl>>

\* finally, with the worker clearing the run flag itself as it ends.
WorkerFinally_ClearsRunning ==
    /\ wpc = "finally"
    /\ Put(Sentinel)
    /\ wpc' = "done"
    /\ running' = FALSE
    /\ UNCHANGED <<platform, process, orphans, nruns, status, shown_code,
                   final_code, console, pollActive, pollN, nfinished,
                   stopAsked, stopLate, nstops, item, tag, pollAlive,
                   start_time, elapsed, timers, timer_id>>

\* finally: self._log_queue.put(None); the thread ends.
WorkerFinally ==
    /\ wpc = "finally"
    /\ Put(Sentinel)
    /\ wpc' = "done"
    /\ UNCHANGED <<platform, process, orphans, nruns, ctl>>

\* ------------------------------------------------- _update_timer
\* self.after(1000, ...): the id of the new callback, one no pending callback
\* has.
AfterId(pending) ==
    CHOOSE i \in 1..(Cardinality(pending) + 1) : i \notin pending

\* _update_timer calling self.after(1000, ...) without keeping the id it
\* returns in self._timer_id.
UpdateTimer_NoIdRecorded(r, t, secs, pending) ==
    IF r /\ t # 0
    THEN /\ elapsed' = <<secs>>
         /\ timers' = pending \cup {AfterId(pending)}
         /\ timer_id' = timer_id
    ELSE /\ timers' = pending
         /\ UNCHANGED <<elapsed, timer_id>>

\* The body of _update_timer, for the run flag r and start time t, secs
\* seconds after the start, the callbacks in pending being scheduled: the
\* label is set and the next call scheduled, or nothing is done.
UpdateTimer(r, t, secs, pending) ==
    IF r /\ t # 0
    THEN /\ elapsed' = <<secs>>
         /\ timers' = pending \cup {AfterId(pending)}
         /\ timer_id' = AfterId(pending)
    ELSE /\ timers' = pending
         /\ UNCHANGED <<elapsed, timer_id>>

\* Tk calls a pending _update_timer callback, one second after the last.
TimerFire ==
    /\ ~pollActive
    /\ \E id \in timers :
          /\ (running /\ start_time # 0) => elapsed[1] < MaxElapsed
          /\ UpdateTimer(running, start_time, elapsed[1] + 1, timers \ {id})
    /\ UNCHANGED <<platform, running, status, shown_code, final_code, process,
                   orphans, log_queue, console, wpc, pollActive, pollN, nruns,
                   nfinished, pushed, stopAsked, stopLate, nstops, item, tag,
                   pollAlive, start_time>>

\* ------------------------------------------------- _run_pipeline
\* _run_pipeline without "if self._running: return".
RunPipeline_NoGuard ==
    /\ ~pollActive
    /\ nruns < MaxRuns
    /\ running' = TRUE
    /\ status' = "RUNNING"
    /\ shown_code' = <<>>
    /\ final_code' = <<>>
    /\ console' = <<Separator, Started(nruns + 1), Command(nruns + 1),
                    Separator>>
    /\ nruns' = nruns + 1
    /\ wpc' = "popen"
    /\ pushed' = <<>>
    /\ stopAsked' = FALSE
    /\ stopLate' = FALSE
    /\ nstops' = 0
    /\ start_time' = nruns + 1
    /\ UpdateTimer(TRUE, nruns + 1, 0, timers)
    /\ UNCHANGED <<platform, process, orphans, log_queue, pollActive, pollN,
                   nfinished, item, tag, pollAlive>>

\* "if self._running: return"; else the run flag is set, the banner logged
\* and the worker thread created and started.
RunPipeline ==
    /\ ~pollActive
    /\ IF running
       THEN UNCHANGED <<running, status, shown_code, final_code, console,
                        wpc, nruns, pushed, stopAsked, stopLate, nstops,
                        start_time, elapsed, timers, timer_id>>
       ELSE /\ nruns < MaxRuns
            /\ running' = TRUE
            /\ status' = "RUNNING"
            /\ shown_code' = <<>>
            /\ final_code' = <<>>
            /\ console' = <<Separator, Started(nruns + 1), Command(nruns + 1),
                            Separator>>
            /\ nruns' = nruns + 1
            /\ wpc' = "popen"
            /\ pushed' = <<>>
            /\ stopAsked' = FALSE
            /\ stopLate' = FALSE
            /\ nstops' = 0
            /\ start_time' = nruns + 1
            /\ UpdateTimer(TRUE, nruns + 1, 0, timers)
    /\ UNCHANGED <<platform, process, orphans, log_queue, pollActive, pollN,
                   nfinished, item, tag, pollAlive>>

\* ------------------------------------------------- _stop_pipeline
\* What the termination request can come to on each platform: taskkill /F /T
\* ends the tree, ends with an error (capture_output, unchecked), or cannot be
\* run; terminate() sends its signal, or raises.
StopOutcomes == IF platform = "win32" THEN {"killed", "failed", "raised"}
                ELSE {"signalled", "raised"}

\* self._process.poll(): the returncode attribute after the call, set once
\* the child has exited.
Poll(p) == IF p.st = "exited" THEN p.code ELSE p.rc

\* "if self._process and self._process.poll() is None"
StopFindsLive(p) == p.pid # 0 /\ Poll(p) = <<>>

\* The process handle after a call of _stop_pipeline whose termination
\* request, if it makes one, comes to o ("none" where it makes none): the
\* request acts on a child found alive; otherwise poll() has stored the exit
\* code of a child that exited.
StopProc(p, o) ==
    IF StopFindsLive(p)
    THEN CASE o = "killed" ->
                [p EXCEPT !.st = "exited", !.code = <<TaskkillCode>>]
           [] o = "signalled" -> [p EXCEPT !.sig = TRUE]
           [] OTHER -> p
    ELSE IF p.pid # 0 THEN [p EXCEPT !.rc = Poll(p)] ELSE p

StopPipeline ==
    /\ ~pollActive
    /\ stopAsked' = (stopAsked \/ running)
    /\ stopLate' = (stopLate \/ (running /\ process.pid = nruns
                                        /\ process.st = "exited"))
    /\ IF StopFindsLive(process)
       THEN \E o \in StopOutcomes :
              /\ nstops < MaxStops
              /\ nstops' = nstops + 1
              /\ process' = StopProc(process, o)
              /\ console' = IF o = "raised"
                            THEN Log(Log(console, Stopping), ErrorStopping)
                            ELSE Log(console, Stopping)
       ELSE /\ process' = StopProc(process, "none")
            /\ UNCHANGED <<console, nstops>>
    /\ UNCHANGED <<platform, running, status, shown_code, final_code, orphans,
                   log_queue, wpc, pollActive, pollN, nruns, nfinished, pushed,
                   item, tag, pollAlive, start_time, elapsed, timers,
                   timer_id>>

\* ------------------------------------------------- _on_pipeline_finished
\* exit_code = self._process.returncode if self._process else -1
ExitCode == IF process.pid # 0 THEN process.rc ELSE <<NoProcessCode>>

\* The handler without "self.after_cancel(self._timer_id)".
OnPipelineFinished_NoCancel ==
    /\ running' = FALSE
    /\ shown_code' = ExitCode
    /\ final_code' = process.code
    /\ status' = IF ExitCode = <<0>> THEN "COMPLETE" ELSE "FAILED"
    /\ console' = Log(Log(Log(Log(console, Separator),
                      IF ExitCode = <<0>> THEN Completed ELSE ExitedWith),
                      TotalTime), Separator)
    /\ nfinished' = nfinished + 1
    /\ UNCHANGED <<start_time, elapsed, timers, timer_id>>

\* The handler without "self._running = False".
OnPipelineFinished_KeepsRunning ==
    /\ running' = running
    /\ shown_code' = ExitCode
    /\ final_code' = process.code
    /\ status' = IF ExitCode = <<0>> THEN "COMPLETE" ELSE "FAILED"
    /\ console' = Log(Log(Log(Log(console, Separator),
                      IF ExitCode = <<0>> THEN Completed ELSE ExitedWith),
                      TotalTime), Separator)
    /\ nfinished' = nfinished + 1
    /\ timers' = IF timer_id # 0 THEN timers \ {timer_id} ELSE timers
    /\ UNCHANGED <<start_time, elapsed, timer_id>>

OnPipelineFinished ==
    /\ running' = FALSE
    /\ shown_code' = ExitCode
    /\ final_code' = process.code
    /\ status' = IF ExitCode = <<0>> THEN "COMPLETE" ELSE "FAILED"
    /\ console' = Log(Log(Log(Log(console, Separator),
                      IF ExitCode = <<0>> THEN Completed ELSE ExitedWith),
                      TotalTime), Separator)
    /\ nfinished' = nfinished + 1
    /\ timers' = IF timer_id # 0 THEN timers \ {timer_id} ELSE timers
    /\ UNCHANGED <<start_time, elapsed, timer_id>>

\* ------------------------------------------------- _poll_queue
\* The Tk timer calls _poll_queue.
PollBegin ==
    /\ ~pollActive
    /\ pollAlive
    /\ pollActive' = TRUE
    /\ pollN' = 0
    /\ UNCHANGED <<platform, running, status, shown_code, final_code, process,
                   orphans, log_queue, console, wpc, nruns, nfinished, pushed,
                   stopAsked, stopLate, nstops, item, tag, pollAlive,
                   start_time, elapsed, timers, timer_id>>

\* get_nowait returns a line: it is classified and logged, the loop goes on.
PollLine ==
    /\ pollActive
    /\ log_queue # <<>>
    /\ Head(log_queue) # Sentinel
    /\ log_queue' = Tail(log_queue)
    /\ item' = Head(log_queue)
    /\ tag' = Tags[TextOf(Head(log_queue))]
    /\ console' = Log(console, Head(log_queue))
    /\ pollN' = pollN + 1
    /\ UNCHANGED <<platform, running, status, shown_code, final_code, process,
                   orphans, wpc, pollActive, nruns, nfinished, pushed,
                   stopAsked, stopLate, nstops, pollAlive, start_time,
                   elapsed, timers, timer_id>>

\* get_nowait returns None: _on_pipeline_finished, break, reschedule.
PollSentinel ==
    /\ pollActive
    /\ log_queue # <<>>
    /\ Head(log_queue) = Sentinel
    /\ log_queue' = Tail(log_queue)
    /\ OnPipelineFinished
    /\ pollActive' = FALSE
    /\ pollN' = 0
    /\ item' = <<>>
    /\ tag' = ""
    /\ UNCHANGED <<platform, process, orphans, wpc, nruns, pushed, stopAsked,
                   stopLate, nstops, pollAlive>>

\* The loop with a get that returns None on an empty queue: the empty queue
\* is taken for the sentinel.
PollEmpty_AsSentinel ==
    /\ pollActive
    /\ log_queue = <<>>
    /\ OnPipelineFinished
    /\ pollActive' = FALSE
    /\ pollN' = 0
    /\ item' = <<>>
    /\ tag' = ""
    /\ UNCHANGED <<platform, process, orphans, log_queue, wpc, nruns, pushed,
                   stopAsked, stopLate, nstops, pollAlive>>

\* get_nowait raises queue.Empty: pass, reschedule.
PollEmpty ==
    /\ pollActive
    /\ log_queue = <<>>
    /\ pollActive' = FALSE
    /\ pollN' = 0
    /\ item' = <<>>
    /\ tag' = ""
    /\ UNCHANGED <<platform, running, status, shown_code, final_code, process,
                   orphans, log_queue, console, wpc, nruns, nfinished, pushed,
                   stopAsked, stopLate, nstops, pollAlive, start_time,
                   elapsed, timers, timer_id>>

\* _classify_line or self._log raises while a line is forwarded (Tk refuses
\* the text, the console widget is gone): only queue.Empty is caught, so the
\* exception leaves _poll_queue before self.after(50, ...) is reached.  The
\* line was taken from the queue and no further call is scheduled.
PollLineFails ==
    /\ pollActive
    /\ log_queue # <<>>
    /\ Head(log_queue) # Sentinel
    /\ log_queue' = Tail(log_queue)
    /\ pollActive' = FALSE
    /\ pollAlive' = FALSE
    /\ pollN' = 0
    /\ item' = <<>>
    /\ tag' = ""
    /\ UNCHANGED <<platform, running, status, shown_code, final_code, process,
                   orphans, console, wpc, nruns, nfinished, pushed, stopAsked,
                   stopLate, nstops, start_time, elapsed, timers, timer_id>>

\* ------------------------------------------------- specification
Child == ChildWrite \/ ChildExit \/ OrphanExit

Worker ==
    \/ WorkerPopen
    \/ WorkerReadLine
    \/ WorkerReadEOF
    \/ WorkerReadError
    \/ WorkerWait
    \/ WorkerExceptFnf
    \/ WorkerExcept
    \/ WorkerFinally

Poller == PollBegin \/ PollLine \/ PollSentinel \/ PollEmpty

\* Every step but the ticks of the elapsed timer.
Core == RunPipeline \/ StopPipeline \/ Poller \/ Worker \/ Child

Next == Core \/ TimerFire

Spec == Init /\ [][Next]_vars

\* The program with a failure of _classify_line or self._log let happen.
FaultNext == Next \/ PollLineFails

FaultSpec == Init /\ [][FaultNext]_vars

\* The worker thread runs until it ends, and the Tk timer keeps calling
\* _poll_queue; a read error, the child and the user are not obliged to act.
Fairness ==
    /\ WF_vars(WorkerPopen)
    /\ WF_vars(WorkerReadLine)
    /\ WF_vars(WorkerReadEOF)
    /\ WF_vars(WorkerWait)
    /\ WF_vars(WorkerExceptFnf)
    /\ WF_vars(WorkerExcept)
    /\ WF_vars(WorkerFinally)
    /\ WF_vars(Poller)

\* The ticks of the elapsed timer write the elapsed label and the timer
\* callbacks only, and no other step reads either: they are left out where
\* only the progress of a run is in question.
FairSpec == Init /\ [][Core]_vars /\ Fairness

\* ------------------------------------------------- _classify_line alone
\* The pieces the lines given to _classify_line are made of: keywords of
\* every list in several letter cases, halves of the keywords that hold a
\* space, the two header characters, a space and a letter.
Fragments ==
    {<<"E", "R", "R", "O", "R">>,
     <<"F", "a", "i", "l", "e", "d">>,
     <<"e", "x", "i", "t">>,
     <<" ", "c", "o", "d", "e">>,
     <<"W", "a", "r", "n">>,
     <<"n", "o", "t">>,
     <<" ", "f", "o", "u", "n", "d">>,
     <<"D", "o", "n", "e">>,
     <<"m", "e", "r", "g", "e", "d">>,
     <<"S", "t", "e", "p">>,
     <<"=">>,
     <<"-">>,
     <<" ">>,
     <<"x">>}

\* The lines of at most n fragments.
RECURSIVE TextsOf(_)
TextsOf(n) ==
    IF n = 0 THEN {<<>>}
    ELSE LET shorter == TextsOf(n - 1)
         IN  shorter \cup {t \o f : t \in shorter, f \in Fragments}

\* _poll_queue has taken a line from the queue.
ClassifyInit ==
    /\ InitPanel
    /\ item \in {TextLine(t \o <<"\n">>) : t \in TextsOf(MaxFragments)}
    /\ tag = ""

\* tag = self._classify_line(item)
Classify ==
    /\ tag = ""
    /\ tag' = ClassifyLine(TextOf(item))
    /\ UNCHANGED <<platform, running, status, shown_code, final_code, process,
                   orphans, log_queue, console, wpc, pollActive, pollN, nruns,
                   nfinished, pushed, stopAsked, stopLate, nstops, item,
                   pollAlive, start_time, elapsed, timers, timer_id>>

ClassifySpec == ClassifyInit /\ [][Classify]_vars

TypeOK ==
    /\ running \in BOOLEAN
    /\ status \in {"IDLE", "RUNNING", "COMPLETE", "FAILED"}
    /\ process.pid \in 0..MaxRuns
    /\ orphans \in 0..MaxRuns
    /\ nruns \in 0..MaxRuns
    /\ nfinished \in 0..MaxRuns
    /\ pollN \in 0..(MaxLines + 1)
    /\ wpc \in {"none", "popen", "read", "wait", "except_fnf", "except",
                "finally", "done"}
    /\ tag \in {"", "error", "warning", "success", "info", "accent", "normal"}
    /\ start_time \in 0..MaxRuns
    /\ elapsed \in {<<>>} \cup {<<n>> : n \in 0..MaxElapsed}
    /\ timer_id \in 0..MaxRuns

\* ------------------------------------------------- shared notions
\* The run has reached its terminal transition.
Terminal == ~running /\ nruns > 0
\* The process in self._process is the one this run spawned.
SpawnedThisRun == nruns > 0 /\ process.pid = nruns
\* Nobody asked this run to stop: no stop call while it ran, no termination
\* request since it started.
NeverAskedToStop == ~stopAsked /\ nstops = 0
IsLine(e) == e[1] = "line"
\* The child's lines among the items of s, in order.
ChildLines(s) == SelectSeq(s, IsLine)
\* Number of lines the worker of this run has read from its child.
ReadSoFar == IF SpawnedThisRun THEN process.nw - Len(process.pipe) ELSE 0
\* Number of lines the child of this run has written.
WrittenSoFar == IF SpawnedThisRun THEN process.nw ELSE 0
\* Lines 1..n of this run's child.
FirstLines(n) == [i \in 1..n |-> Line(nruns, i)]
\* This run's worker has met an exception in its read loop.
ReadErrorSeen == \E i \in 1..Len(pushed) : pushed[i] = ErrException(nruns)
\* Number of sentinels this run's worker has put.
SentinelsPushed == Cardinality({i \in 1..Len(pushed) : pushed[i] = Sentinel})

\* ------------------------------------------------- C1
\* C1: a start issued while the run flag is set spawns nothing, and at no
\* time is more than one child process alive.  Stated by its second half: the
\* number of live child processes is at most one.
C1_AtMostOneLiveChild == LiveChildren <= 1

\* The first half of C1 on its own: while the run flag is set no worker
\* thread is created and no process handle stored by a start.
C1_NoStartWhileRunning == [][running => nruns' = nruns]_vars

\* ------------------------------------------------- C2
\* C2: a run that was asked to stop while running, and for which a
\* termination request was issued, ends Cancelled, never Failed or Completed.
C2_StopLeadsToCancelled ==
    (Terminal /\ SpawnedThisRun /\ stopAsked /\ nstops > 0)
        => status = "CANCELLED"

\* ------------------------------------------------- C3
\* C3: a run whose process was spawned, had exited with code 0 when the run
\* reached its terminal transition and was never asked to stop ends
\* Completed(0).
C3_ExitZeroCompletes ==
    (Terminal /\ SpawnedThisRun /\ final_code = <<0>> /\ NeverAskedToStop)
        => (status = "COMPLETE" /\ shown_code = <<0>>)

\* ------------------------------------------------- C4
\* C4: a run whose process was spawned, had exited with a nonzero code c when
\* the run reached its terminal transition and was never asked to stop ends
\* Failed(c), with that very code.
C4_NonzeroFailsWithCode ==
    (Terminal /\ SpawnedThisRun /\ final_code # <<>> /\ final_code # <<0>>
        /\ NeverAskedToStop)
        => (status = "FAILED" /\ shown_code = final_code)

\* ------------------------------------------------- C5
\* C5 as stated: when the run has reached its terminal state, the child's
\* lines on the console are exactly the lines the child wrote, in order.
C5_AllWrittenLinesDelivered ==
    (Terminal /\ SpawnedThisRun)
        => ChildLines(console) = FirstLines(WrittenSoFar)

\* C5 as amended: the child's lines on the console followed by those still
\* queued are at all times exactly the lines the worker has read, 1..k in
\* the order read and each once; none is left in the queue when the run has
\* reached its terminal state; and they are all the lines the child wrote
\* when the worker read the stream to its end without a read error.
C5_ReadLinesDeliveredInOrder ==
    /\ ChildLines(console) \o ChildLines(log_queue) = FirstLines(ReadSoFar)
    /\ Terminal => ChildLines(log_queue) = <<>>
    /\ (Terminal /\ ~ReadErrorSeen) => ReadSoFar = WrittenSoFar

\* A finished run, never stopped and without a read error, with two lines
\* of its child on the console.
C5_Witness ==
    /\ Terminal /\ SpawnedThisRun /\ ~ReadErrorSeen
    /\ Len(ChildLines(console)) >= 2

\* ------------------------------------------------- C6
\* This run's Popen has raised.
SpawnFailed ==
    \/ wpc = "except_fnf"
    \/ wpc = "except" /\ ~SpawnedThisRun

\* C6: when the spawn fails the state has not entered Running and no worker
\* thread exists: the failure reaches the caller of start.
C6_SpawnFailureSynchronous ==
    SpawnFailed => (~running /\ status # "RUNNING")

\* ------------------------------------------------- C7
\* C7: the worker of a run puts at most one sentinel, nothing after it, and
\* none before it is through; when it has ended, whichever way (end of
\* stream, spawn failure, exception in the read loop), the sentinel is there
\* as the last item it put.
C7_OneSentinelLast ==
    /\ SentinelsPushed <= 1
    /\ wpc = "done" <=> SentinelsPushed = 1
    /\ wpc = "done" => pushed[Len(pushed)] = Sentinel

\* The worker has ended after an exception in the read loop that followed a
\* line: line, error line, sentinel.
C7_Witness ==
    /\ wpc = "done"
    /\ pushed = <<Line(nruns, 1), ErrException(nruns), Sentinel>>

\* ------------------------------------------------- C8
\* The stream of this run has reached its end, or the worker has left the
\* read loop: nothing the child does is needed for the worker to go on.
StreamEnded ==
    /\ running
    /\ \/ wpc \in {"wait", "except_fnf", "except", "finally", "done"}
       \/ wpc = "read" /\ process.st = "exited"

\* C8: _on_pipeline_finished has run once for every run but the one in
\* progress, for which it has not run; the status is a terminal one exactly
\* when no run is in progress; and, the worker and the poller being scheduled
\* fairly, a run whose stream has ended reaches its terminal transition.
C8_ExactlyOneTerminal ==
    /\ [](nfinished = nruns - (IF running THEN 1 ELSE 0))
    /\ [](Terminal <=> status \in {"COMPLETE", "FAILED"})
    /\ StreamEnded ~> ~running

\* The second run has reached its terminal transition.
C8_Witness == Terminal /\ nruns = 2 /\ nfinished = 2

\* ------------------------------------------------- C9
\* C9: a poll that finds the queue empty can always return (get_nowait does
\* not wait), and the step it takes is the return: no line logged, run flag,
\* status and exit code as they were.
C9_DrainNeverBlocks ==
    /\ []((pollActive /\ log_queue = <<>>) => ENABLED PollEmpty)
    /\ [][(pollActive /\ log_queue = <<>> /\ ctl' # ctl)
            => (/\ ~pollActive'
                /\ UNCHANGED <<running, status, shown_code, console,
                               nfinished>>)]_vars

\* A poll called during a run finds the queue empty at its first get.
C9_Witness == pollActive /\ pollN = 0 /\ log_queue = <<>> /\ running

\* ------------------------------------------------- C10
\* The maxItems of a drain call.
MaxItems == 1

\* C10: one poll logs at most MaxItems lines.
C10_DrainAtMostMaxItems == pollN <= MaxItems

\* ------------------------------------------------- C11
\* The severities by falling priority, and the keywords of each.
Severities == <<"Error", "Warning", "Success", "Info">>
KeywordsOf(sev) ==
    CASE sev = "Error" ->
           {<<"e", "r", "r", "o", "r">>,
            <<"f", "a", "i", "l", "e", "d">>,
            <<"e", "x", "c", "e", "p", "t", "i", "o", "n">>,
            <<"t", "r", "a", "c", "e", "b", "a", "c", "k">>,
            <<"e", "x", "i", "t", " ", "c", "o", "d", "e">>}
      [] sev = "Warning" ->
           {<<"w", "a", "r", "n", "i", "n", "g">>,
            <<"w", "a", "r", "n">>,
            <<"n", "o", "t", " ", "f", "o", "u", "n", "d">>,
            <<"s", "k", "i", "p", "p", "e", "d">>}
      [] sev = "Success" ->
           {<<"d", "o", "n", "e">>,
            <<"c", "o", "m", "p", "l", "e", "t", "e">>,
            <<"s", "u", "c", "c", "e", "s", "s">>,
            <<"f", "i", "n", "i", "s", "h", "e", "d">>,
            <<"m", "e", "r", "g", "e", "d">>}
      [] sev = "Info" ->
           {<<"s", "t", "e", "p">>,
            <<"s", "t", "a", "r", "t", "i", "n", "g">>,
            <<"p", "r", "o", "c", "e", "s", "s", "i", "n", "g">>,
            <<"i", "m", "p", "o", "r", "t", "i", "n", "g">>,
            <<"e", "x", "p", "o", "r", "t", "i", "n", "g">>}
\* Keyword k stands in text at position i, letter case aside.
OccursAt(text, k, i) ==
    /\ i + Len(k) - 1 <= Len(text)
    /\ \A j \in 1..Len(k) : LowerChar(text[i + j - 1]) = LowerChar(k[j])
\* The text holds a keyword of the severity.
Holds(text, sev) ==
    \E k \in KeywordsOf(sev) : \E i \in 1..Len(text) : OccursAt(text, k, i)
\* The reference: the first severity in priority order a keyword of which
\* the text holds; Header for a text that starts with "=" or "-"; else Plain.
RefSeverity(text) ==
    IF \E n \in DOMAIN Severities : Holds(text, Severities[n])
    THEN Severities[CHOOSE n \in DOMAIN Severities :
                      /\ Holds(text, Severities[n])
                      /\ \A m \in 1..(n - 1) : ~Holds(text, Severities[m])]
    ELSE IF text # <<>> /\ text[1] \in {"=", "-"} THEN "Header"
    ELSE "Plain"
\* The severity a tag of the console stands for.
TagSeverity(t) ==
    CASE t = "error" -> "Error"
      [] t = "warning" -> "Warning"
      [] t = "success" -> "Success"
      [] t = "info" -> "Info"
      [] t = "accent" -> "Header"
      [] t = "normal" -> "Plain"

\* C11: the tag _classify_line returns for a line is the severity of the
\* reference priority function; a line that holds an Error or a Warning
\* keyword and a Success keyword is never tagged success.
C11_ClassifierIsReference ==
    tag # "" =>
        /\ TagSeverity(tag) = RefSeverity(TextOf(item))
        /\ ((Holds(TextOf(item), "Error") \/ Holds(TextOf(item), "Warning"))
                /\ Holds(TextOf(item), "Success")) => tag # "success"

\* A line that begins with a Success keyword and holds a Warning keyword
\* later has been classified.
C11_Witness ==
    /\ tag = "warning"
    /\ \E k \in KeywordsOf("Success") : OccursAt(TextOf(item), k, 1)
    /\ ~pollActive

\* ------------------------------------------------- C12
\* The terminal texts of the status label.
TerminalStatus == {"COMPLETE", "FAILED"}

\* What C12 says of one step.
C12_Step ==
    /\ (status' # status) =>
          (\/ /\ status' = "RUNNING"
              /\ status \in {"IDLE"} \cup TerminalStatus
              /\ nruns' = nruns + 1
           \/ /\ status' \in TerminalStatus
              /\ status = "RUNNING")
    /\ (nruns' # nruns) => (status # "RUNNING" /\ status' = "RUNNING")
    /\ (RunPipeline /\ status \in TerminalStatus) => (status' = "RUNNING")

\* C12: the status changes only from IDLE or a terminal status to RUNNING, by
\* a start that is accepted, and from RUNNING to a terminal status; a start
\* is accepted only when the status is not RUNNING; in a terminal status the
\* run flag is clear, so that the guard of a start lets it through, and a
\* start made there leaves the status RUNNING.
C12_RunStateMonotonic ==
    /\ [](status \in TerminalStatus => ~running)
    /\ [][C12_Step]_vars

\* A start has been accepted in a terminal status: the second run is under
\* way, the first having ended FAILED or COMPLETE.
C12_Witness ==
    /\ status = "RUNNING" /\ nruns = 2 /\ nfinished = 1
    /\ \E i \in DOMAIN console : console[i] = Started(2)

\* ------------------------------------------------- C13
\* What C13 says of one step: a call of _stop_pipeline leaves the run flag
\* and the status as they are; made while no run is in progress it issues no
\* termination request, logs nothing, and leaves the queue and the exit code
\* shown as they are.
C13_Step ==
    /\ StopPipeline => UNCHANGED <<running, status>>
    /\ (StopPipeline /\ ~running) =>
          UNCHANGED <<nstops, console, log_queue, shown_code>>

TerminalOf(p) ==
    LET code == IF p.pid # 0 THEN p.rc ELSE <<NoProcessCode>>
    IN  <<IF code = <<0>> THEN "COMPLETE" ELSE "FAILED", code>>

\* C14: when the worker of a run in progress has ended, so that the next
\* drain ends the run, two calls of _stop_pipeline leave the run the terminal
\* state that one call leaves it, whatever the termination request comes to.
C14_StopIdempotent ==
    (running /\ wpc = "done") =>
        \A o \in StopOutcomes :
            TerminalOf(StopProc(StopProc(process, o), o))
                = TerminalOf(StopProc(process, o))

\* ------------------------------------------------- C15
\* C15: while no run is in progress no _update_timer callback is pending, so
\* that no tick can fire; and no step that ends with no run in progress, the
\* terminal transition among them, changes the elapsed time shown: it stays
\* what the last tick of the run made it until a start is accepted.
C15_ElapsedFreezes ==
    /\ [](~running => timers = {})
    /\ [][~running' => elapsed' = elapsed]_vars

\* A run has ended after a tick of its timer: the label shows one second.
C15_Witness == Terminal /\ elapsed = <<1>> /\ timer_id # 0

\* ------------------------------------------------- C16
\* C16: a run in progress for which stop was called, and whose child is
\* alive, has had a termination request issued: no stop call is lost,
\* whenever it was made.
C16_NoStopLost ==
    (running /\ stopAsked /\ SpawnedThisRun /\ process.st = "alive")
        => nstops > 0

\* ------------------------------------------------- C17
\* C17: a run during which stop was called when its child had exited by
\* itself already (no termination request was issued) ends Cancelled.
C17_LateStopCancels ==
    (Terminal /\ SpawnedThisRun /\ stopLate /\ nstops = 0)
        => status = "CANCELLED"

\* ------------------------------------------------- C18
\* A termination request of this run has taken effect: taskkill has ended the
\* child, or terminate() has sent its signal.
StopTookEffect ==
    /\ running /\ SpawnedThisRun /\ nstops > 0
    /\ IF platform = "win32" THEN process.st = "exited" ELSE process.sig

\* C18: on both platforms a run whose termination request has taken effect
\* leaves the running state, the worker and the poller being scheduled
\* fairly and whatever the child does with the signal.
C18_StopEndsRun == StopTookEffect ~> ~running

\* ------------------------------------------------- C19
\* C19: a failure of _classify_line or self._log on a line taken from the
\* queue leaves a _poll_queue call scheduled.
C19_PollerSurvivesFailure == [][PollLineFails => pollAlive']_vars

\* ------------------------------------------------- C20
\* C20: when the worker has met an exception in its read loop, what it has
\* put on the queue is the lines it had read, one error line, and then the
\* sentinel and nothing else, the sentinel being there when the worker has
\* ended; and the error line is given the tag error when the poller takes it.
C20_ReadErrorEndsStream ==
    /\ ReadErrorSeen =>
          \/ pushed = FirstLines(ReadSoFar) \o <<ErrException(nruns)>>
          \/ pushed = FirstLines(ReadSoFar)
                         \o <<ErrException(nruns), Sentinel>>
    /\ (ReadErrorSeen /\ wpc = "done") => pushed[Len(pushed)] = Sentinel
    /\ (pollActive /\ pollN > 0
          /\ console[Len(console)] = ErrException(nruns)) => tag = "error"

\* The poller has just logged the error line of a read error that followed
\* a line of the child.
C20_Witness ==
    /\ pollActive /\ SpawnedThisRun /\ tag = "error"
    /\ console[Len(console)] = ErrException(nruns)
    /\ Len(ChildLines(console)) = 1

\* ------------------------------------------------- C21
\* C21: a run whose worker met a read error on the stream of the process it
\* had spawned ends FAILED and with a numeric exit code: never COMPLETE, and
\* never with no code at all.
C21_ReadErrorFailsWithCode ==
    (Terminal /\ SpawnedThisRun /\ ReadErrorSeen) =>
        (status = "FAILED" /\ shown_code # <<>>)

\* ------------------------------------------------- C22
\* The run state as the panel holds it: the flag and the status label.
RunState == <<running, status>>

\* What C22 says of one step.
C22_Step ==
    /\ (Worker \/ Child) => (RunState' = RunState)
    /\ (~running /\ running') =>
          (~pollActive /\ nruns' = nruns + 1 /\ status' = "RUNNING")
    /\ (running /\ ~running') =>
          (/\ pollActive
           /\ log_queue # <<>>
           /\ Head(log_queue) = Sentinel
           /\ log_queue' = Tail(log_queue)
           /\ wpc' = wpc
           /\ status' \in TerminalStatus)
    /\ (status' # status) => (running' # running)

\* C22: the run state is written by the control thread only.  No step of the
\* worker or of the child changes the run flag or the status; the flag is
\* set by a start, outside the drain loop, and it is cleared, and the status
\* made terminal, only in the step of the drain loop that takes a sentinel
\* from the queue.
C22_RunStateOnControlThread == [][C22_Step]_vars

\* A run has been ended by the drain loop taking the sentinel its worker had
\* put after two lines of the child.
C22_Witness ==
    /\ Terminal /\ nfinished = 1 /\ wpc = "done"
    /\ Len(ChildLines(console)) = 2
    /\ pushed[Len(pushed)] = Sentinel

\* ------------------------------------------------- C23
\* The worker thread of the last accepted start has nothing left to put on
\* the queue: there is no such thread, or it has put its sentinel and ended.
WorkerEnded == wpc \in {"none", "done"}

\* C23: the queue has one producer at a time.  A step that starts a worker
\* thread (an accepted start) is taken only when the worker of the previous
\* run has ended, and what that worker had put has all been taken from the
\* queue.
C23_OneProducer ==
    [][(nruns' # nruns) => (WorkerEnded /\ log_queue = <<>>)]_vars

\* A second worker has been started after the first run was finished, and
\* has put a line of its own, the only item of the queue.
C23_Witness ==
    /\ nruns = 2 /\ nfinished = 1 /\ wpc = "read"
    /\ pushed = <<Line(2, 1)>>
    /\ log_queue = <<Line(2, 1)>>

\* ------------------------------------------------- C24
\* C24: a start whose spawn fails leaves the timer as the earlier runs left
\* it.  When the worker has found that Popen failed, the start time recorded
\* is not the one of this start (an accepted start records its own number),
\* and after a first start the elapsed label is still empty.
C24_FailedSpawnKeepsTimer ==
    SpawnFailed =>
        /\ start_time < nruns
        /\ (nruns = 1) => (elapsed = <<>>)

\* ------------------------------------------------- C25
\* A call of _stop_pipeline made a termination request that did not act on
\* the child: the command raised, or it completed without success.
StopRequestFailed == nstops' = nstops + 1 /\ process' = process

\* C25: a termination request that fails is reported and is not fatal.  The
\* step logs a line reporting the failure as its last line, and it leaves the
\* run flag, the status and the scheduling of the poller as they were.
C25_StopFailureReported ==
    [][StopRequestFailed =>
          (/\ console'[Len(console')] = ErrorStopping
           /\ RunState' = RunState
           /\ pollAlive' = pollAlive)]_vars

\* ------------------------------------------------- C26
\* C26: the exit code that decides the terminal state of a run is read from
\* the process that run spawned.  When the run that has ended spawned no
\* process, the handler has read no handle: the code it used is the one it
\* uses for "no process".
C26_ExitCodeOfThisRun ==
    (Terminal /\ ~SpawnedThisRun) => (shown_code = <<NoProcessCode>>)

\* ------------------------------------------------- C27
\* The worker of this run has reported that the process could not be started.
CouldNotStart ==
    \E i \in 1..Len(pushed) : pushed[i] = ErrCouldNotStart(nruns)

\* C27: a run whose process could not be spawned ends FAILED, never
\* COMPLETE, and the line "ERROR: Could not start process" is on the console
\* before the lines of the terminal report.
C27_SpawnErrorFails ==
    (Terminal /\ CouldNotStart) =>
        /\ status = "FAILED"
        /\ \E i \in 1..Len(console) :
              /\ console[i] = ErrCouldNotStart(nruns)
              /\ \E j \in (i + 1)..Len(console) : console[j] = ExitedWith

\* ------------------------------------------------- C28
\* The queue entry e is a sentinel, or a line or an error line of run r.
OfRun(e, r) == e = Sentinel \/ e[2] = r

\* C28: the queue holds the items of the run in progress and of no other.
\* Whenever the run flag is false the queue is empty; every item in the queue
\* was put by the worker of the current run, the queue being a suffix of what
\* that worker has put; and a step that takes a sentinel from the queue is a
\* step of a run in progress.
C28_QueueOfThisRunOnly ==
    /\ [](~running => log_queue = <<>>)
    /\ [](/\ Len(log_queue) <= Len(pushed)
          /\ log_queue = SubSeq(pushed, Len(pushed) - Len(log_queue) + 1,
                                Len(pushed))
          /\ \A i \in 1..Len(log_queue) : OfRun(log_queue[i], nruns))
    /\ [][(log_queue # <<>> /\ Head(log_queue) = Sentinel
             /\ log_queue' = Tail(log_queue)) => running]_vars

\* The second run has ended after a read error on the stream of its process:
\* the queue is empty again, the worker having put a line, the error and the
\* sentinel.
C28_Witness ==
    /\ Terminal /\ nruns = 2 /\ SpawnedThisRun /\ ReadErrorSeen
    /\ log_queue = <<>> /\ Len(pushed) = 3

\* ------------------------------------------------- C29
\* C29: at most one _update_timer callback is pending at any time, the one
\* self._timer_id names, and one is pending only while the run flag is set;
\* an accepted start leaves exactly one pending.
C29_OneTimerChain ==
    /\ [](/\ Cardinality(timers) <= 1
          /\ (timers # {}) => (running /\ timers = {timer_id}))
    /\ [][(nruns' # nruns) => (Cardinality(timers') = 1)]_vars

\* The second run is in progress and its timer has ticked once: one callback
\* is pending, after the first run's chain was cancelled when it finished.
C29_Witness ==
    /\ running /\ nruns = 2 /\ nfinished = 1
    /\ elapsed = <<1>> /\ timers = {timer_id}

=============================================================================
